---- MODULE Spec2Model ----
(***************************************************************************)
(* State-machine model of medbox_db.py: four in-memory maps keyed by       *)
(* deviceId (meta, meds snapshot, pending commands, command history),      *)
(* mutated by Flask request handlers that run on concurrent worker         *)
(* threads.  Every access to the maps sits inside a `with lock:` block, so *)
(* each block is one atomic action; a handler made of several blocks is a  *)
(* sequence of actions, and other threads may run between them.            *)
(***************************************************************************)
EXTENDS Integers, Sequences, FiniteSets, TLC

\* ---- bounds of the model ------------------------------------------------
MaxReqs == 2        \* requests served in one run, all endpoints
MaxQueueReqs == 3   \* requests served in one run of the command-queue endpoints
MaxUploadReqs == 3  \* requests served in one run of the snapshot endpoints
MaxTime == 2        \* largest clock reading (three distinct instants)
MaxIdx  == 1        \* largest index tried by delete-pending / delete-history
MaxDiskReqs == 2    \* requests served in one run with failing file writes
MaxViewReqs == 3    \* requests served in one run of the views and the queue
MaxLockReqs == 3    \* requests served in one run of the lock-level machine
MaxFaults == 1      \* file writes that fail in such a run

Procs   == {"t1", "t2"}          \* worker threads serving requests
Devices == {"d1", "d2"}          \* device ids that requests name

\* Python's None in a nullable timestamp field: below every clock reading.
None == -1

VARIABLES
  now,                        \* last value returned by now_iso()
  devices_meta,               \* deviceId -> meta record
  devices_meds,               \* deviceId -> snapshot
  devices_commands_pending,   \* deviceId -> list of commands
  devices_commands_history,   \* deviceId -> list of sent commands
  pc,                         \* per thread: position in its handler
  req,                        \* per thread: the request in progress and its locals
  last,                       \* the request answered last, and its response
  left,                       \* number of requests still to arrive
  log,                        \* history variables (see LogInit)
  files,                      \* the four JSON files: name -> state and document
  faults,                     \* number of file writes that are still to fail
  failed                      \* the saves <<name, outcome>> of the critical section
                              \* in which a save failed last

maps == <<devices_meta, devices_meds, devices_commands_pending,
          devices_commands_history>>
disk == <<files, faults, failed>>
vars == <<now, devices_meta, devices_meds, devices_commands_pending,
          devices_commands_history, pc, req, last, left, log, files, faults, failed>>

\* ---- the JSON files -------------------------------------------------------
\* META_FILE, MEDS_FILE, PENDING_FILE, HISTORY_FILE
FileNames == {"meta", "meds", "pending", "history"}
\* a file that does not exist; a file whose text is not a JSON document (it was
\* truncated by open("w") and the write did not finish); a file holding the
\* JSON document of a map (json.load gives back what json.dump was given: the
\* maps hold str keys, lists, dicts, ints, bools, strings and None only)
AbsentFile == [state |-> "absent", doc |-> <<>>]
MalformedFile == [state |-> "malformed", doc |-> <<>>]
WrittenFile(data) == [state |-> "written", doc |-> data]

\* load_json_file: the default for a missing file and for a file that fails
\* to parse, else the parsed document
load_json_file(file, default) ==
  IF file.state = "absent" THEN default
  ELSE IF file.state = "malformed" THEN default
  ELSE file.doc

\* (mutant) an empty map is not written: the file is left as it is
save_json_file_nonempty(f, name, data, outcome) ==
  CASE outcome = "ok" -> IF DOMAIN data = {} THEN f
                         ELSE [f EXCEPT ![name] = WrittenFile(data)]
    [] outcome = "kept" -> f
    [] outcome = "torn" -> [f EXCEPT ![name] = MalformedFile]

\* save_json_file, by outcome: "ok" the document is written; "kept" open()
\* raised and the file is as before; "torn" open() truncated the file and
\* json.dump raised before the document was complete.  The exception is
\* caught and printed in either case.
save_json_file(f, name, data, outcome) ==
  CASE outcome = "ok" -> [f EXCEPT ![name] = WrittenFile(data)]
    [] outcome = "kept" -> f
    [] outcome = "torn" -> [f EXCEPT ![name] = MalformedFile]

\* the outcomes the next save may have
SaveOutcomes == IF faults > 0 THEN {"ok", "kept", "torn"} ELSE {"ok"}
FailCount(os) == Cardinality({i \in DOMAIN os : os[i] # "ok"})

\* (mutant) the first failing save ends the critical section's saves
RECURSIVE save_all_abort(_, _, _)
save_all_abort(f, saves, os) ==
  IF saves = <<>> THEN f
  ELSE IF Head(os) # "ok"
       THEN save_json_file(f, Head(saves)[1], Head(saves)[2], Head(os))
       ELSE save_all_abort(save_json_file(f, Head(saves)[1], Head(saves)[2], Head(os)),
                           Tail(saves), Tail(os))

\* the files after the saves <<name, data>> of one critical section, in order
RECURSIVE save_all(_, _, _)
save_all(f, saves, os) ==
  IF saves = <<>> THEN f
  ELSE save_all(save_json_file(f, Head(saves)[1], Head(saves)[2], Head(os)),
                Tail(saves), Tail(os))

\* the saves of one critical section take place, each with some outcome
Save(saves) ==
  \E os \in [1..Len(saves) -> SaveOutcomes] :
    /\ FailCount(os) <= faults
    /\ files' = save_all(files, saves, os)
    /\ faults' = faults - FailCount(os)
    /\ failed' = IF FailCount(os) = 0 THEN failed
                 ELSE [i \in 1..Len(saves) |-> <<saves[i][1], os[i]>>]

\* ---- dict and list helpers ----------------------------------------------
\* m[k] = v on a dict
Put(m, k, v) == [x \in DOMAIN m \cup {k} |-> IF x = k THEN v ELSE m[x]]
\* m.pop(k, None)
Pop(m, k) == [x \in DOMAIN m \ {k} |-> m[x]]
\* m.get(k, default)
Get(m, k, default) == IF k \in DOMAIN m THEN m[k] ELSE default
\* del lst[i]  (i is a 0-based Python index, in range)
DelAt(lst, i) == [j \in 1..(Len(lst) - 1) |-> IF j <= i THEN lst[j] ELSE lst[j + 1]]
\* the reading of the next now_iso() call: the clock has stood still or advanced.
\* A reading n stands for the ISO-8601 string of that instant; isoformat() gives
\* distinct strings for distinct instants, so equal fields mean equal readings.
NowIso == {now, IF now < MaxTime THEN now + 1 ELSE now}

\* ---- request inputs -----------------------------------------------------
\* JSON bodies of POST /medbox/upload: a dict that may lack keys
UploadIds == Devices \cup {""}
UploadBodies ==
  {[k \in {} |-> 0]}
  \cup {[deviceId |-> d, count |-> 0, meds |-> <<>>] : d \in UploadIds}
  \cup {[deviceId |-> d, count |-> 1, meds |-> <<"Aspirin">>] : d \in Devices}
  \cup {[count |-> 1, meds |-> <<"Aspirin">>],
        [deviceId |-> "d1", meds |-> <<"Aspirin">>],
        [deviceId |-> "d2", count |-> 1]}
\* the deviceId query argument of GET /medbox/changes ("" when absent)
ChangesIds == Devices \cup {""}
\* JSON bodies of the three command endpoints.  A numeric field holds the JSON
\* text of its value: 1 and 1.5 are numbers, "7" and "abc" (with their quotes)
\* are strings, null is null.
AddBodies ==
  {[name |-> "Ibuprofen", qty |-> "1", hour |-> "20", minute |-> "30", led |-> "2"],
   [name |-> "Ibuprofen", qty |-> "1", hour |-> "20", minute |-> "30", led |-> "2",
    enabled |-> FALSE],
   [name |-> "Ibuprofen", qty |-> "1.5", hour |-> "20", minute |-> "30", led |-> "\"7\""],
   [name |-> "Ibuprofen", qty |-> "\"abc\"", hour |-> "20", minute |-> "30", led |-> "2"],
   [name |-> "Ibuprofen", qty |-> "1", hour |-> "20", minute |-> "30"],
   [k \in {} |-> 0]}
\* The first edit body also carries two keys the endpoint does not know.
EditBodies ==
  {[id |-> "1", qty |-> "3", status |-> "\"sent\"", sent_at |-> "\"2024-01-01T00:00:00\""],
   [qty |-> "3"], [id |-> "\"abc\""]}
DeleteBodies == {[id |-> "1"], [name |-> "Ibuprofen"], [id |-> "null"]}
FriendlyNames == {"", "Kitchen box"}

\* ---- history variables --------------------------------------------------
\* accepted : uid -> deviceId, for the commands appended to a pending list so far
\* removed  : uids taken out by delete-pending, delete-history or delete-device
\* delivered: uid -> number of poll responses that carried the command
\*            (uids never delivered are not in its domain)
\* enq      : deviceId -> commands appended since the device's pending list
\*            was last emptied (by a poll or a device delete)
\* cut      : deviceId -> TRUE when a delete-pending took an element out of enq
\* del      : deviceId -> "never" | "clean" (deleted, no upload issued since)
\*            | "issued" (an upload for it arrived after its last delete)
\* stored   : deviceId -> TRUE when a snapshot was stored since its last delete
\* wiped    : deviceId -> the maps its last delete found an entry in
\* writer   : deviceId -> the upload whose snapshot was stored last (request
\*            number, body fields, the storedAt it was answered with, and
\*            whether it overwrote a snapshot); NoWriter after a device delete
NoWriter == [rid |-> 0]

LogInit ==
  [accepted |-> [u \in {} |-> ""], removed |-> {}, delivered |-> [u \in {} |-> 0],
   enq |-> [d \in Devices |-> <<>>], cut |-> [d \in Devices |-> FALSE],
   del |-> [d \in Devices |-> "never"], stored |-> [d \in Devices |-> FALSE],
   wiped |-> [d \in Devices |-> {}], writer |-> [d \in Devices |-> NoWriter]]

\* a thread with no request in progress
NoRequest == [kind |-> "none"]

InitWith(n) ==
  /\ now = 0
  /\ devices_meta = [d \in {} |-> 0]
  /\ devices_meds = [d \in {} |-> 0]
  /\ devices_commands_pending = [d \in {} |-> 0]
  /\ devices_commands_history = [d \in {} |-> 0]
  /\ pc = [p \in Procs |-> "idle"]
  /\ req = [p \in Procs |-> NoRequest]
  /\ last = [req |-> NoRequest, resp |-> [code |-> 0]]
  /\ left = n
  /\ log = LogInit
  /\ files = [f \in FileNames |-> AbsentFile]
  /\ faults = 0
  /\ failed = <<>>

Init == InitWith(MaxReqs)

\* A state load_state() finds in the files of an earlier run: device d1 was
\* created, one delete command was queued for it and a poll delivered it.
InitLoaded(n) ==
  /\ now = 0
  /\ devices_meta = [d \in {"d1"} |->
                       [deviceId |-> d, friendly_name |-> d, created_at |-> 0,
                        last_seen_upload |-> None, last_seen_changes |-> 0]]
  /\ devices_meds = [d \in {} |-> 0]
  /\ devices_commands_pending = [d \in {"d1"} |-> <<>>]
  /\ devices_commands_history =
       [d \in {"d1"} |->
          <<[op |-> "delete", id |-> 1, uid |-> 0, status |-> "sent", sent_at |-> 0]>>]
  /\ pc = [p \in Procs |-> "idle"]
  /\ req = [p \in Procs |-> NoRequest]
  /\ last = [req |-> NoRequest, resp |-> [code |-> 0]]
  /\ left = n
  /\ log = [LogInit EXCEPT !.accepted = [u \in {0} |-> "d1"],
                           !.delivered = [u \in {0} |-> 1]]
  /\ files = [f \in FileNames |->
                CASE f = "meta" -> WrittenFile(devices_meta)
                  [] f = "meds" -> WrittenFile(devices_meds)
                  [] f = "pending" -> WrittenFile(devices_commands_pending)
                  [] f = "history" -> WrittenFile(devices_commands_history)]
  /\ faults = 0
  /\ failed = <<>>

\* The files of an earlier run, as load_state() may find them: none at all; the
\* four documents of a run in which d1 got one command delivered; or the same
\* with a META_FILE that does not parse and no MEDS_FILE.
LoadedMeta ==
  [d \in {"d1"} |-> [deviceId |-> d, friendly_name |-> d, created_at |-> 0,
                     last_seen_upload |-> None, last_seen_changes |-> 0]]
LoadedHistory ==
  [d \in {"d1"} |->
     <<[op |-> "delete", id |-> 1, uid |-> 0, status |-> "sent", sent_at |-> 0]>>]
FilesAtStart ==
  {[f \in FileNames |-> AbsentFile],
   [meta |-> WrittenFile(LoadedMeta), meds |-> WrittenFile(<<>>),
    pending |-> WrittenFile([d \in {"d1"} |-> <<>>]),
    history |-> WrittenFile(LoadedHistory)],
   [meta |-> MalformedFile, meds |-> AbsentFile,
    pending |-> WrittenFile([d \in {"d1"} |-> <<>>]),
    history |-> WrittenFile(LoadedHistory)]}

\* load_state(), then n requests, k of whose file writes fail
InitFiles(n, k) ==
  /\ now = 0
  /\ files \in FilesAtStart
  /\ devices_meds = load_json_file(files["meds"], <<>>)
  /\ devices_commands_pending = load_json_file(files["pending"], <<>>)
  /\ devices_commands_history = load_json_file(files["history"], <<>>)
  /\ devices_meta = load_json_file(files["meta"], <<>>)
  /\ pc = [p \in Procs |-> "idle"]
  /\ req = [p \in Procs |-> NoRequest]
  /\ last = [req |-> NoRequest, resp |-> [code |-> 0]]
  /\ left = n
  /\ log = IF "d1" \in DOMAIN devices_commands_history
           THEN [LogInit EXCEPT !.accepted = [u \in {0} |-> "d1"],
                                !.delivered = [u \in {0} |-> 1]]
           ELSE LogInit
  /\ faults = k
  /\ failed = <<>>

\* ---- the code's helpers as operators ------------------------------------
\* (mutant) a new record counts its creation as an upload
NewMetaSeen(d, t) ==
  [deviceId |-> d, friendly_name |-> d, created_at |-> t,
   last_seen_upload |-> t, last_seen_changes |-> None]

\* the record ensure_device_meta creates
NewMeta(d, t) ==
  [deviceId |-> d, friendly_name |-> d, created_at |-> t,
   last_seen_upload |-> None, last_seen_changes |-> None]

\* ensure_device_meta: create the meta entry if it doesn't exist
ensure_device_meta(meta, d, t) ==
  IF d \notin DOMAIN meta THEN Put(meta, d, NewMeta(d, t)) ELSE meta

\* (mutant) the upload stamp replaces the record by a fresh one
set_last_seen_upload_reset(meta, d, t) ==
  [meta EXCEPT ![d] = [NewMeta(d, t) EXCEPT !.last_seen_upload = t]]

\* devices_meta[device_id]["last_seen_upload"] = now_iso()
set_last_seen_upload(meta, d, t) == [meta EXCEPT ![d].last_seen_upload = t]

\* devices_meta[device_id]["last_seen_changes"] = now_iso()
set_last_seen_changes(meta, d, t) == [meta EXCEPT ![d].last_seen_changes = t]

\* devices_meta[device_id]["friendly_name"] = friendly_name
set_friendly_name(meta, d, n) == [meta EXCEPT ![d].friendly_name = n]

\* (mutant) the new command is put in front of the list
enqueue_prepend(pending, d, cmd) == Put(pending, d, <<cmd>> \o Get(pending, d, <<>>))

\* enqueue_command's critical section: create the list if absent, append
enqueue_append(pending, d, cmd) == Put(pending, d, Append(Get(pending, d, <<>>), cmd))

\* dict(c) with status and sent_at set
history_entry(c, t) ==
  [k \in DOMAIN c \cup {"status", "sent_at"} |->
     IF k = "status" THEN "sent" ELSE IF k = "sent_at" THEN t ELSE c[k]]

\* (mutant) the sent entries replace the history instead of extending it
drain_history_overwrite(history, d, cmds, t) ==
  Put(history, d, [i \in 1..Len(cmds) |-> history_entry(cmds[i], t)])

\* (mutant) the loop over cmds skips the first command
drain_history_partial(history, d, cmds, t) ==
  Put(history, d,
      Get(history, d, <<>>)
        \o [i \in 1..(Len(cmds) - 1) |-> history_entry(cmds[i + 1], t)])

\* get_changes: the history list after the loop over cmds
drain_history(history, d, cmds, t) ==
  Put(history, d,
      Get(history, d, <<>>) \o [i \in 1..Len(cmds) |-> history_entry(cmds[i], t)])

\* (mutant) the pending list is not cleared after sending
drain_pending_keep(pending, d) == Put(pending, d, Get(pending, d, <<>>))

\* (mutant) the poll empties the pending list of every device
drain_pending_all(pending, d) == [e \in DOMAIN pending \cup {d} |-> <<>>]

\* get_changes: devices_commands_pending[device_id] = []
drain_pending(pending, d) == Put(pending, d, <<>>)

\* (mutant) the stored snapshot is stamped when it is stored, not when it is built
store_snapshot_restamped(meds, d, snapshot) ==
  Put(meds, d, [snapshot EXCEPT !.timestamp = now])

\* upload_medbox: devices_meds[device_id] = snapshot
store_snapshot(meds, d, snapshot) == Put(meds, d, snapshot)

\* (mutant) the last element is removed, whatever the index
delete_index_pop(m, d, idx) ==
  LET lst == Get(m, d, <<>>)
  IN  IF 0 <= idx /\ idx < Len(lst) THEN Put(m, d, SubSeq(lst, 1, Len(lst) - 1)) ELSE m

\* (mutant) the first element is removed, whatever the index
delete_index_first(m, d, idx) ==
  LET lst == Get(m, d, <<>>)
  IN  IF 0 <= idx /\ idx < Len(lst) THEN Put(m, d, Tail(lst)) ELSE m

\* delete_pending / delete_history: the map after `del lst[idx]`, or unchanged
delete_index(m, d, idx) ==
  LET lst == Get(m, d, <<>>)
  IN  IF 0 <= idx /\ idx < Len(lst) THEN Put(m, d, DelAt(lst, idx)) ELSE m

\* (mutant) the snapshot of the deleted device is left behind
delete_device_pops_keep_meds(m, d) == <<Pop(m[1], d), m[2], Pop(m[3], d), Pop(m[4], d)>>

\* delete_device: the four maps <<meta, meds, pending, history>> after the pops
delete_device_pops(m, d) == <<Pop(m[1], d), Pop(m[2], d), Pop(m[3], d), Pop(m[4], d)>>

\* get_snapshot's response
snapshot_response(meds, d) ==
  IF d \in DOMAIN meds THEN [code |-> 200, body |-> meds[d]]
  ELSE [code |-> 404, error |-> "No data for this device yet"]

\* (mutant) count and meds are tested for truth instead of for None
upload_missing_fields_falsy(data) ==
  \/ Get(data, "deviceId", "") = ""
  \/ Get(data, "meds", <<>>) = <<>>
  \/ Get(data, "count", 0) = 0

\* upload_medbox's validation: `not data`, then the three fields
upload_invalid_json(data) == DOMAIN data = {}
upload_missing_fields(data) ==
  Get(data, "deviceId", "") = "" \/ {"meds", "count"} \ DOMAIN data # {}

\* ---- steps shared by the handlers ---------------------------------------
CanStart(p) == pc[p] = "idle" /\ left > 0

Goto(p, l) == pc' = [pc EXCEPT ![p] = l]

\* thread p takes up request r and goes to label l of its handler
Begin(p, r, l) ==
  /\ CanStart(p)
  /\ req' = [req EXCEPT ![p] = r]
  /\ Goto(p, l)
  /\ left' = left - 1
  /\ UNCHANGED last

\* ---- references held outside the lock ------------------------------------
\* device_detail and get_pending fetch D's meta dict and pending / history
\* lists under the lock and read them (render, jsonify) after releasing it.
\* What they fetched are the objects themselves: a later append, del or field
\* assignment on the same object shows through.  A thread in that position
\* keeps, in its request record,
\*   seen : the values under the lock,
\*   live : the names whose object is still the one the map holds for D,
\*   held : for the other names, the value of the object it holds.
\* An object leaves its map when delete_device pops it and when get_changes
\* rebinds pending[D] to a new list; nothing changes it afterwards.
RefNames == {"meta", "pending", "history"}
Reading(q) == pc[q] \in {"render", "jsonify"}

\* the references .get(d) returns under the lock
Refs(d) ==
  [seen |-> [meta |-> Get(devices_meta, d, <<>>),
             snapshot |-> Get(devices_meds, d, <<>>),
             pending |-> Get(devices_commands_pending, d, <<>>),
             history |-> Get(devices_commands_history, d, <<>>)],
   live |-> {"meta" : x \in {d} \cap DOMAIN devices_meta}
            \cup {"pending" : x \in {d} \cap DOMAIN devices_commands_pending}
            \cup {"history" : x \in {d} \cap DOMAIN devices_commands_history},
   held |-> [meta |-> Get(devices_meta, d, <<>>),
             pending |-> Get(devices_commands_pending, d, <<>>),
             history |-> Get(devices_commands_history, d, <<>>)]]

\* what thread p finds in the object it holds for `name`, now
Deref(p, name) ==
  IF name \in req[p].live
  THEN CASE name = "meta" -> devices_meta[req[p].dev]
         [] name = "pending" -> devices_commands_pending[req[p].dev]
         [] name = "history" -> devices_commands_history[req[p].dev]
  ELSE req[p].held[name]

\* the request records after the objects `names` of device d left their maps
Detach(d, names) ==
  [q \in Procs |->
     IF Reading(q) /\ req[q].dev = d
     THEN [req[q] EXCEPT
             !.held = [n \in RefNames |->
                         IF n \in names \cap req[q].live THEN Deref(q, n) ELSE @[n]],
             !.live = @ \ names]
     ELSE req[q]]

\* thread p answers its request and is free again; r is the request records
\* as the step leaves them
AnswerWith(p, answer, r) ==
  /\ last' = [req |-> req[p], resp |-> answer]
  /\ req' = [r EXCEPT ![p] = NoRequest]
  /\ Goto(p, "idle")
  /\ UNCHANGED left

Answer(p, answer) == AnswerWith(p, answer, req)

\* a handler that is one critical section at most: arrival to answer is one step
OneStepWith(p, r, answer, rs) ==
  /\ CanStart(p)
  /\ last' = [req |-> r, resp |-> answer]
  /\ left' = left - 1
  /\ req' = rs
  /\ UNCHANGED pc

OneStep(p, r, answer) == OneStepWith(p, r, answer, req)

\* a request answered at once with an error status, nothing touched
Reject(p, r, code, msg) ==
  /\ OneStep(p, r, [code |-> code, error |-> msg])
  /\ UNCHANGED <<now, maps, log, disk>>

\* one call of ensure_device_meta by thread p, then on to label l
EnsureStep(p, l) ==
  LET d == req[p].dev
  IN  /\ \E t \in (IF d \in DOMAIN devices_meta THEN {now} ELSE NowIso) :
           /\ now' = t
           /\ devices_meta' = ensure_device_meta(devices_meta, d, t)
      /\ IF d \in DOMAIN devices_meta THEN UNCHANGED disk
         ELSE Save(<< <<"meta", devices_meta'>> >>)
      /\ Goto(p, l)
      /\ UNCHANGED <<devices_meds, devices_commands_pending,
                     devices_commands_history, req, last, left, log>>

\* the handler dies with KeyError on devices_meta[device_id]: Flask answers 500
KeyErrorStep(p) ==
  /\ req[p].dev \notin DOMAIN devices_meta
  /\ Answer(p, [code |-> 500, error |-> "KeyError"])
  /\ UNCHANGED <<maps, log, disk>>

\* ---- POST /medbox/upload ------------------------------------------------
upload_medbox_start(p) ==
  /\ CanStart(p)
  /\ \E data \in UploadBodies :
    \/ /\ upload_invalid_json(data)
       /\ Reject(p, [kind |-> "upload", rid |-> left, data |-> data],
                 400, "invalid json")
    \/ /\ ~upload_invalid_json(data)
       /\ upload_missing_fields(data)
       /\ Reject(p, [kind |-> "upload", rid |-> left, data |-> data],
                 400, "missing fields")
    \/ /\ ~upload_invalid_json(data)
       /\ ~upload_missing_fields(data)
       /\ \E t \in NowIso :
            /\ now' = t
            /\ Begin(p, [kind |-> "upload", rid |-> left, data |-> data,
                         dev |-> data.deviceId,
                         snapshot |-> [timestamp |-> t, count |-> data.count,
                                       meds |-> data.meds]],
                     "ensure")
       /\ log' = [log EXCEPT !.del[data.deviceId] =
                    IF @ = "clean" THEN "issued" ELSE @]
       /\ UNCHANGED <<maps, disk>>

upload_medbox_ensure(p) ==
  /\ pc[p] = "ensure" /\ req[p].kind = "upload"
  /\ EnsureStep(p, "touch_ensure")

update_last_seen_upload_ensure(p) ==
  /\ pc[p] = "touch_ensure" /\ req[p].kind = "upload"
  /\ EnsureStep(p, "touch_set")

update_last_seen_upload_set(p) ==
  /\ pc[p] = "touch_set" /\ req[p].kind = "upload"
  /\ \/ /\ req[p].dev \in DOMAIN devices_meta
        /\ \E t \in NowIso :
             /\ now' = t
             /\ devices_meta' = set_last_seen_upload(devices_meta, req[p].dev, t)
        /\ Save(<< <<"meta", devices_meta'>> >>)
        /\ Goto(p, "store")
        /\ UNCHANGED <<devices_meds, devices_commands_pending,
                       devices_commands_history, req, last, left, log>>
     \/ /\ \E t \in NowIso : now' = t
        /\ KeyErrorStep(p)

upload_medbox_store(p) ==
  /\ pc[p] = "store" /\ req[p].kind = "upload"
  /\ devices_meds' = store_snapshot(devices_meds, req[p].dev, req[p].snapshot)
  /\ Answer(p, [code |-> 200, status |-> "ok", deviceId |-> req[p].dev,
                receivedCount |-> req[p].data.count,
                storedAt |-> req[p].snapshot.timestamp])
  /\ log' = [log EXCEPT
               !.writer[req[p].dev] =
                  [rid |-> req[p].rid, count |-> req[p].data.count,
                   meds |-> req[p].data.meds,
                   storedAt |-> req[p].snapshot.timestamp,
                   over |-> req[p].dev \in DOMAIN devices_meds],
               !.stored[req[p].dev] = TRUE]
  /\ Save(<< <<"meds", devices_meds'>> >>)
  /\ UNCHANGED <<now, devices_meta, devices_commands_pending,
                 devices_commands_history>>

\* ---- GET /medbox/changes ------------------------------------------------
get_changes_start(p) ==
  /\ CanStart(p)
  /\ \E d \in ChangesIds :
    \/ /\ d = ""
       /\ Reject(p, [kind |-> "changes", rid |-> left, dev |-> d],
                 400, "deviceId required")
    \/ /\ d # ""
       /\ \E t \in NowIso :
            /\ now' = t
            /\ Begin(p, [kind |-> "changes", rid |-> left, dev |-> d,
                         began |-> t, touched |-> None],
                     "ensure")
       /\ UNCHANGED <<maps, log, disk>>

get_changes_ensure(p) ==
  /\ pc[p] = "ensure" /\ req[p].kind = "changes"
  /\ EnsureStep(p, "touch_ensure")

update_last_seen_changes_ensure(p) ==
  /\ pc[p] = "touch_ensure" /\ req[p].kind = "changes"
  /\ EnsureStep(p, "touch_set")

update_last_seen_changes_set(p) ==
  /\ pc[p] = "touch_set" /\ req[p].kind = "changes"
  /\ \/ /\ req[p].dev \in DOMAIN devices_meta
        /\ \E t \in NowIso :
             /\ now' = t
             /\ devices_meta' = set_last_seen_changes(devices_meta, req[p].dev, t)
             /\ req' = [req EXCEPT ![p].touched = t]
        /\ Save(<< <<"meta", devices_meta'>> >>)
        /\ Goto(p, "drain")
        /\ UNCHANGED <<devices_meds, devices_commands_pending,
                       devices_commands_history, last, left, log>>
     \/ /\ \E t \in NowIso : now' = t
        /\ KeyErrorStep(p)

\* the uids of a list of commands
Uids(lst) == {lst[i].uid : i \in 1..Len(lst)}

get_changes_drain(p) ==
  LET d == req[p].dev
      cmds == Get(devices_commands_pending, d, <<>>)
  IN  /\ pc[p] = "drain" /\ req[p].kind = "changes"
      /\ \E t \in NowIso :
           /\ now' = t
           /\ devices_commands_history' =
                drain_history(devices_commands_history, d, cmds, t)
      /\ devices_commands_pending' = drain_pending(devices_commands_pending, d)
      /\ Save(<< <<"pending", devices_commands_pending'>>,
                 <<"history", devices_commands_history'>> >>)
      /\ AnswerWith(p, [code |-> 200, commands |-> cmds], Detach(d, {"pending"}))
      /\ log' = [log EXCEPT
                   !.delivered = [u \in DOMAIN @ \cup Uids(cmds) |->
                                    Get(@, u, 0) + (IF u \in Uids(cmds) THEN 1 ELSE 0)],
                   !.enq[d] = <<>>, !.cut[d] = FALSE]
      /\ UNCHANGED <<devices_meta, devices_meds>>

\* ---- POST /medbox/<device_id>/command/{add,edit,delete} -----------------
\* Python's int() on a JSON value: an integer is itself, a float is truncated,
\* a string of digits is parsed; any other string raises ValueError and null
\* raises TypeError.
py_int_table ==
  [x \in {"1", "2", "3", "20", "30", "1.5", "\"7\""} |->
     CASE x = "1" -> 1 [] x = "2" -> 2 [] x = "3" -> 3 [] x = "20" -> 20
       [] x = "30" -> 30 [] x = "1.5" -> 1 [] x = "\"7\"" -> 7]
py_int_raises(x) == x \notin DOMAIN py_int_table
py_int(x) == py_int_table[x]

\* (mutant) a command added without an enabled field is queued disabled
add_command_cmd_disabled(data, uid) ==
  [op |-> "add", name |-> data.name, qty |-> py_int(data.qty),
   hour |-> py_int(data.hour), minute |-> py_int(data.minute),
   led |-> py_int(data.led), enabled |-> Get(data, "enabled", FALSE), uid |-> uid]

\* the command dict each endpoint builds (uid stands for the dict's identity);
\* enabled is a JSON boolean, which bool() returns as it is
add_command_cmd(data, uid) ==
  [op |-> "add", name |-> data.name, qty |-> py_int(data.qty),
   hour |-> py_int(data.hour), minute |-> py_int(data.minute),
   led |-> py_int(data.led), enabled |-> Get(data, "enabled", TRUE), uid |-> uid]
\* (mutant) an edit copies every key of the body into the command
edit_command_cmd_copy_all(data, uid) ==
  [k \in {"op", "id", "uid"} \cup DOMAIN data |->
     IF k = "op" THEN "edit" ELSE IF k = "uid" THEN uid
     ELSE IF k = "id" THEN py_int(data.id) ELSE data[k]]
edit_command_cmd(data, uid) ==
  [k \in {"op", "id", "uid"}
         \cup (DOMAIN data \cap {"name", "qty", "hour", "minute", "led", "enabled"}) |->
     IF k = "op" THEN "edit" ELSE IF k = "uid" THEN uid
     ELSE IF k = "id" THEN py_int(data.id) ELSE data[k]]
delete_command_cmd(data, uid) == [op |-> "delete", id |-> py_int(data.id), uid |-> uid]

\* the fields an add must carry, and whether int() raises on one of them
add_required == {"name", "qty", "hour", "minute", "led"}
add_command_raises(data) ==
  \E k \in {"qty", "hour", "minute", "led"} : py_int_raises(data[k])

\* the handler got past validation: cmd is built, enqueue_command is called
CommandAccepted(p, kind, d, data, cmd) ==
  /\ Begin(p, [kind |-> kind, rid |-> left, dev |-> d, data |-> data, cmd |-> cmd],
           "ensure")
  /\ UNCHANGED <<now, maps, log, disk>>

add_command_start(p) ==
  /\ CanStart(p)
  /\ \E d \in Devices, data \in AddBodies :
    LET r == [kind |-> "add_command", rid |-> left, dev |-> d, data |-> data]
    IN  \/ /\ DOMAIN data = {}
           /\ Reject(p, r, 400, "invalid json")
        \/ /\ DOMAIN data # {}
           /\ add_required \ DOMAIN data # {}
           /\ Reject(p, r, 400, "missing fields")
        \/ /\ add_required \subseteq DOMAIN data
           /\ add_command_raises(data)
           /\ Reject(p, r, 500, "ValueError")
        \/ /\ add_required \subseteq DOMAIN data
           /\ ~add_command_raises(data)
           /\ CommandAccepted(p, "add_command", d, data, add_command_cmd(data, left))

edit_command_start(p) ==
  /\ CanStart(p)
  /\ \E d \in Devices, data \in EditBodies :
    LET r == [kind |-> "edit_command", rid |-> left, dev |-> d, data |-> data]
    IN  \/ /\ "id" \notin DOMAIN data
           /\ Reject(p, r, 400, "id required")
        \/ /\ "id" \in DOMAIN data
           /\ py_int_raises(data.id)
           /\ Reject(p, r, 500, "ValueError")
        \/ /\ "id" \in DOMAIN data
           /\ ~py_int_raises(data.id)
           /\ CommandAccepted(p, "edit_command", d, data, edit_command_cmd(data, left))

delete_command_start(p) ==
  /\ CanStart(p)
  /\ \E d \in Devices, data \in DeleteBodies :
    LET r == [kind |-> "delete_command", rid |-> left, dev |-> d, data |-> data]
    IN  \/ /\ "id" \notin DOMAIN data
           /\ Reject(p, r, 400, "id required")
        \/ /\ "id" \in DOMAIN data
           /\ py_int_raises(data.id)
           /\ Reject(p, r, 500, "TypeError")
        \/ /\ "id" \in DOMAIN data
           /\ ~py_int_raises(data.id)
           /\ CommandAccepted(p, "delete_command", d, data,
                              delete_command_cmd(data, left))

CommandKinds == {"add_command", "edit_command", "delete_command"}

enqueue_command_ensure(p) ==
  /\ pc[p] = "ensure" /\ req[p].kind \in CommandKinds
  /\ EnsureStep(p, "append")

enqueue_command_append(p) ==
  LET d == req[p].dev
      cmd == req[p].cmd
  IN  /\ pc[p] = "append" /\ req[p].kind \in CommandKinds
      /\ devices_commands_pending' = enqueue_append(devices_commands_pending, d, cmd)
      /\ Save(<< <<"pending", devices_commands_pending'>> >>)
      /\ Answer(p, [code |-> 200, status |-> "queued", deviceId |-> d, command |-> cmd])
      /\ log' = [log EXCEPT !.accepted = Put(@, cmd.uid, d),
                            !.enq[d] = Append(@, cmd)]
      /\ UNCHANGED <<now, devices_meta, devices_meds, devices_commands_history>>

\* ---- GET /medbox/<device_id>/snapshot and /pending ----------------------
get_snapshot(p) ==
  /\ CanStart(p)
  /\ \E d \in Devices :
    /\ OneStep(p, [kind |-> "snapshot", rid |-> left, dev |-> d],
               snapshot_response(devices_meds, d))
    /\ UNCHANGED <<now, maps, log, disk>>

\* get_pending's critical section: the list object is fetched
get_pending(p) ==
  /\ CanStart(p)
  /\ \E d \in Devices :
       Begin(p, [kind |-> "pending", rid |-> left, dev |-> d,
                 seen |-> Refs(d).seen, live |-> Refs(d).live, held |-> Refs(d).held],
             "jsonify")
  /\ UNCHANGED <<now, maps, log, disk>>

\* jsonify() serialises the list, after the lock was released
get_pending_jsonify(p) ==
  /\ pc[p] = "jsonify" /\ req[p].kind = "pending"
  /\ Answer(p, [code |-> 200, deviceId |-> req[p].dev,
                pending |-> Deref(p, "pending")])
  /\ UNCHANGED <<now, maps, log, disk>>

\* ---- dashboard: POST /devices/new, GET /device/<device_id> --------------
new_device_start(p) ==
  /\ CanStart(p)
  /\ \E d \in Devices \cup {""}, n \in FriendlyNames :
    \/ /\ d = ""
       /\ Reject(p, [kind |-> "new_device", rid |-> left, dev |-> d],
                 400, "Device ID required")
    \/ /\ d # ""
       /\ Begin(p, [kind |-> "new_device", rid |-> left, dev |-> d,
                    friendly_name |-> IF n = "" THEN d ELSE n],
                "ensure")
       /\ UNCHANGED <<now, maps, log, disk>>

new_device_ensure(p) ==
  /\ pc[p] = "ensure" /\ req[p].kind = "new_device"
  /\ EnsureStep(p, "rename")

new_device_rename(p) ==
  /\ pc[p] = "rename" /\ req[p].kind = "new_device"
  /\ \/ /\ req[p].dev \in DOMAIN devices_meta
        /\ devices_meta' =
             set_friendly_name(devices_meta, req[p].dev, req[p].friendly_name)
        /\ Save(<< <<"meta", devices_meta'>> >>)
        /\ Answer(p, [code |-> 302, location |-> "device_detail"])
        /\ UNCHANGED <<now, devices_meds, devices_commands_pending,
                       devices_commands_history, log>>
     \/ /\ KeyErrorStep(p)
        /\ UNCHANGED now

device_detail_start(p) ==
  /\ CanStart(p)
  /\ \E d \in Devices :
       Begin(p, [kind |-> "detail", rid |-> left, dev |-> d], "ensure")
  /\ UNCHANGED <<now, maps, log, disk>>

device_detail_ensure(p) ==
  /\ pc[p] = "ensure" /\ req[p].kind = "detail"
  /\ EnsureStep(p, "read")

\* device_detail's critical section: the four objects are fetched
device_detail_read(p) ==
  LET d == req[p].dev
  IN  /\ pc[p] = "read" /\ req[p].kind = "detail"
      /\ req' = [req EXCEPT ![p] =
                   [kind |-> "detail", rid |-> @.rid, dev |-> d,
                    seen |-> Refs(d).seen, live |-> Refs(d).live,
                    held |-> Refs(d).held]]
      /\ Goto(p, "render")
      /\ UNCHANGED <<now, maps, log, disk, last, left>>

\* render_template_string() reads the objects, after the lock was released;
\* the snapshot dict is never changed once stored, so the page shows it as
\* fetched
device_detail_render(p) ==
  /\ pc[p] = "render" /\ req[p].kind = "detail"
  /\ Answer(p, [code |-> 200,
                meta |-> Deref(p, "meta"),
                snapshot |-> req[p].seen.snapshot,
                pending |-> Deref(p, "pending"),
                history |-> Deref(p, "history")])
  /\ UNCHANGED <<now, maps, log, disk>>

\* ---- dashboard: the three delete actions --------------------------------
delete_device(p) ==
  /\ CanStart(p)
  /\ \E d \in Devices :
    /\ OneStepWith(p, [kind |-> "delete_device", rid |-> left, dev |-> d],
                   [code |-> 302, location |-> "index"], Detach(d, RefNames))
    /\ devices_meta' = delete_device_pops(maps, d)[1]
    /\ devices_meds' = delete_device_pops(maps, d)[2]
    /\ devices_commands_pending' = delete_device_pops(maps, d)[3]
    /\ devices_commands_history' = delete_device_pops(maps, d)[4]
    /\ Save(<< <<"meta", devices_meta'>>, <<"meds", devices_meds'>>,
               <<"pending", devices_commands_pending'>>,
               <<"history", devices_commands_history'>> >>)
    /\ log' = [log EXCEPT
                 !.removed = @ \cup Uids(Get(devices_commands_pending, d, <<>>))
                               \cup Uids(Get(devices_commands_history, d, <<>>)),
                 !.enq[d] = <<>>, !.cut[d] = FALSE,
                 !.del[d] = "clean", !.stored[d] = FALSE, !.writer[d] = NoWriter,
                 !.wiped[d] =
                    {"meta" : x \in {d} \cap DOMAIN devices_meta}
                    \cup {"meds" : x \in {d} \cap DOMAIN devices_meds}
                    \cup {"pending" : x \in {d} \cap DOMAIN devices_commands_pending}
                    \cup {"history" : x \in {d} \cap DOMAIN devices_commands_history}]
    /\ UNCHANGED now

\* the uid at Python index idx of a list, as a set (empty when out of range)
UidAt(lst, idx) == IF idx < Len(lst) THEN {lst[idx + 1].uid} ELSE {}

delete_pending(p) ==
  /\ CanStart(p)
  /\ \E d \in Devices, idx \in 0..MaxIdx :
    /\ OneStep(p, [kind |-> "delete_pending", rid |-> left, dev |-> d, idx |-> idx],
               [code |-> 302, location |-> "device_detail"])
    /\ devices_commands_pending' = delete_index(devices_commands_pending, d, idx)
    /\ IF idx < Len(Get(devices_commands_pending, d, <<>>))
       THEN Save(<< <<"pending", devices_commands_pending'>> >>)
       ELSE UNCHANGED disk
    /\ log' = [log EXCEPT
                 !.removed = @ \cup UidAt(Get(devices_commands_pending, d, <<>>), idx),
                 !.cut[d] = @ \/ idx < Len(Get(devices_commands_pending, d, <<>>))]
    /\ UNCHANGED <<now, devices_meta, devices_meds, devices_commands_history>>

delete_history(p) ==
  /\ CanStart(p)
  /\ \E d \in Devices, idx \in 0..MaxIdx :
    /\ OneStep(p, [kind |-> "delete_history", rid |-> left, dev |-> d, idx |-> idx],
               [code |-> 302, location |-> "device_detail"])
    /\ devices_commands_history' = delete_index(devices_commands_history, d, idx)
    /\ IF idx < Len(Get(devices_commands_history, d, <<>>))
       THEN Save(<< <<"history", devices_commands_history'>> >>)
       ELSE UNCHANGED disk
    /\ log' = [log EXCEPT
                 !.removed = @ \cup UidAt(Get(devices_commands_history, d, <<>>), idx)]
    /\ UNCHANGED <<now, devices_meta, devices_meds, devices_commands_pending>>

\* ---- specifications -----------------------------------------------------
UploadSteps(p) ==
  \/ upload_medbox_start(p)
  \/ upload_medbox_ensure(p)
  \/ update_last_seen_upload_ensure(p)
  \/ update_last_seen_upload_set(p)
  \/ upload_medbox_store(p)

ChangesSteps(p) ==
  \/ get_changes_start(p)
  \/ get_changes_ensure(p)
  \/ update_last_seen_changes_ensure(p)
  \/ update_last_seen_changes_set(p)
  \/ get_changes_drain(p)

CommandSteps(p) ==
  \/ add_command_start(p)
  \/ edit_command_start(p)
  \/ delete_command_start(p)
  \/ enqueue_command_ensure(p)
  \/ enqueue_command_append(p)

DashboardSteps(p) ==
  \/ new_device_start(p)
  \/ new_device_ensure(p)
  \/ new_device_rename(p)
  \/ device_detail_start(p)
  \/ device_detail_ensure(p)
  \/ device_detail_read(p)
  \/ device_detail_render(p)

\* every endpoint that names a device, on every thread (the index page and
\* the empty new-device form only read)
Next ==
  \E p \in Procs :
    \/ UploadSteps(p)
    \/ ChangesSteps(p)
    \/ CommandSteps(p)
    \/ DashboardSteps(p)
    \/ get_snapshot(p)
    \/ get_pending(p)
    \/ get_pending_jsonify(p)
    \/ delete_device(p)
    \/ delete_pending(p)
    \/ delete_history(p)

Spec == Init /\ [][Next]_vars

\* the endpoints that touch the command queue
NextQueue ==
  \E p \in Procs :
    \/ ChangesSteps(p)
    \/ CommandSteps(p)
    \/ delete_device(p)
    \/ delete_pending(p)
    \/ delete_history(p)

SpecQueue == InitLoaded(MaxQueueReqs) /\ [][NextQueue]_vars

\* the endpoints that touch the snapshot store, and the device page
NextUpload ==
  \E p \in Procs :
    \/ UploadSteps(p)
    \/ get_snapshot(p)
    \/ delete_device(p)
    \/ device_detail_start(p)
    \/ device_detail_ensure(p)
    \/ device_detail_read(p)
    \/ device_detail_render(p)

SpecUpload == InitWith(MaxUploadReqs) /\ [][NextUpload]_vars

\* the two views of a device's queue, and the endpoints that change the queue
NextView ==
  \E p \in Procs :
    \/ ChangesSteps(p)
    \/ CommandSteps(p)
    \/ device_detail_start(p)
    \/ device_detail_ensure(p)
    \/ device_detail_read(p)
    \/ device_detail_render(p)
    \/ get_pending(p)
    \/ get_pending_jsonify(p)
    \/ delete_pending(p)
    \/ delete_history(p)

SpecView == InitLoaded(MaxViewReqs) /\ [][NextView]_vars

\* every endpoint, from the files of an earlier run, with failing file writes
SpecDisk == InitFiles(MaxDiskReqs, MaxFaults) /\ [][Next]_vars

\* ---- the lock, step by step ---------------------------------------------
\* Above, a `with lock:` block is one step.  Here the same handlers are taken
\* at the level of the lock itself: a request is the sequence of lock
\* operations its handler and the helpers it calls perform, in program order;
\* threading.Lock is not reentrant, so "acquire" waits as long as any thread
\* (the caller included) holds the lock.  "release" is the normal end of a
\* `with` block; "release_or_raise" ends a block whose body may raise
\* (KeyError on devices_meta[device_id]): the `with` statement releases the
\* lock either way, and after a raise the request ends with status 500.
\* pc is "idle", "run" (outside any block) or "locked" (inside one).
LockProcs == Procs \cup {"t3"}

section_ops == <<"acquire", "release">>
ensure_device_meta_ops == section_ops

\* (mutant) update_last_seen_* calls ensure_device_meta inside its own block
update_last_seen_ops_nested ==
  <<"acquire">> \o ensure_device_meta_ops \o <<"release_or_raise">>

update_last_seen_ops == ensure_device_meta_ops \o <<"acquire", "release_or_raise">>
enqueue_command_ops == ensure_device_meta_ops \o section_ops

\* the lock operations of each handler
LockOps ==
  [rejected |-> <<>>,
   upload_medbox |-> ensure_device_meta_ops \o update_last_seen_ops \o section_ops,
   get_changes |-> ensure_device_meta_ops \o update_last_seen_ops \o section_ops,
   command |-> enqueue_command_ops,
   get_snapshot |-> section_ops,
   get_pending |-> section_ops,
   index |-> section_ops,
   new_device |-> ensure_device_meta_ops \o <<"acquire", "release_or_raise">>,
   device_detail |-> ensure_device_meta_ops \o section_ops,
   delete_device |-> section_ops,
   delete_pending |-> section_ops,
   delete_history |-> section_ops]

LockFree == \A q \in LockProcs : pc[q] # "locked"
LockIdle == UNCHANGED <<now, maps, log, disk>>

InitLock ==
  /\ now = 0
  /\ devices_meta = <<>> /\ devices_meds = <<>>
  /\ devices_commands_pending = <<>> /\ devices_commands_history = <<>>
  /\ pc = [p \in LockProcs |-> "idle"]
  /\ req = [p \in LockProcs |-> NoRequest]
  /\ last = [req |-> NoRequest, resp |-> [code |-> 0]]
  /\ left = MaxLockReqs
  /\ log = LogInit
  /\ files = [f \in FileNames |-> AbsentFile]
  /\ faults = 0
  /\ failed = <<>>

\* a request arrives at an idle thread; of its handler only the lock
\* operations still to come are kept
lock_start(p) ==
  /\ CanStart(p)
  /\ \E k \in DOMAIN LockOps :
       req' = [req EXCEPT ![p] = [kind |-> "request", rid |-> left, ops |-> LockOps[k]]]
  /\ pc' = [pc EXCEPT ![p] = "run"]
  /\ left' = left - 1
  /\ UNCHANGED last /\ LockIdle

\* lock.acquire(): returns once no thread holds the lock
lock_acquire(p) ==
  /\ pc[p] # "idle" /\ req[p].ops # <<>> /\ Head(req[p].ops) = "acquire"
  /\ LockFree
  /\ pc' = [pc EXCEPT ![p] = "locked"]
  /\ req' = [req EXCEPT ![p].ops = Tail(@)]
  /\ UNCHANGED <<last, left>> /\ LockIdle

\* the end of a `with lock:` block
lock_release(p) ==
  /\ pc[p] = "locked" /\ req[p].ops # <<>>
  /\ Head(req[p].ops) \in {"release", "release_or_raise"}
  /\ pc' = [pc EXCEPT ![p] = "run"]
  /\ req' = [req EXCEPT ![p].ops = Tail(@)]
  /\ UNCHANGED <<last, left>> /\ LockIdle

\* the body of the block raises: the lock is released, the request ends
lock_raise(p) ==
  /\ pc[p] = "locked" /\ req[p].ops # <<>>
  /\ Head(req[p].ops) = "release_or_raise"
  /\ pc' = [pc EXCEPT ![p] = "idle"]
  /\ last' = [req |-> req[p], resp |-> [code |-> 500]]
  /\ req' = [req EXCEPT ![p] = NoRequest]
  /\ UNCHANGED left /\ LockIdle

\* the handler returns
lock_finish(p) ==
  /\ pc[p] = "run" /\ req[p].ops = <<>>
  /\ pc' = [pc EXCEPT ![p] = "idle"]
  /\ last' = [req |-> req[p], resp |-> [code |-> 200]]
  /\ req' = [req EXCEPT ![p] = NoRequest]
  /\ UNCHANGED left /\ LockIdle

\* what a thread does once its request has arrived
lock_run(p) ==
  \/ lock_acquire(p)
  \/ lock_release(p)
  \/ lock_raise(p)
  \/ lock_finish(p)

NextLock == \E p \in LockProcs : lock_start(p) \/ lock_run(p)

\* every thread is scheduled again and again (requests arrive when they do)
SpecLock ==
  InitLock /\ [][NextLock]_vars /\ \A p \in LockProcs : WF_vars(lock_run(p))

\* ---- properties ---------------------------------------------------------
\* the step in which thread p answers a poll (its drain section)
DrainStep(p) == pc[p] = "drain" /\ pc'[p] = "idle"
\* the step in which a one-section request of the given kind arrives and is answered
OneStepOf(kind) == left' # left /\ last'.req.kind = kind /\ last'.req.rid = left
\* how often uid u occurs in a list of commands
Count(lst, u) == Cardinality({i \in 1..Len(lst) : lst[i].uid = u})
Pending(d) == Get(devices_commands_pending, d, <<>>)
History(d) == Get(devices_commands_history, d, <<>>)
Delivered(u) == Get(log.delivered, u, 0)

C2_FifoDrain ==
  [][\A p \in Procs :
       DrainStep(p) =>
         /\ ~log.cut[req[p].dev] => last'.resp.commands = log.enq[req[p].dev]
         /\ req[p].dev \in DOMAIN devices_commands_pending'
         /\ devices_commands_pending'[req[p].dev] = <<>>]_vars

\* C2 witness: a poll answered with two commands, and the list is empty
C2_Witness ==
  /\ last.req.kind = "changes" /\ last.resp.code = 200
  /\ Len(last.resp.commands) = 2
  /\ last.resp.commands[1].uid # last.resp.commands[2].uid
  /\ Pending(last.req.dev) = <<>>

\* C3: a poll that returns n commands appends n entries to the end of the
\* device's history, in the order returned, each the returned command plus
\* status "sent" and a sent_at not earlier than the time the request began nor
\* than the last-poll time this poll wrote into the meta; older entries stay.
C3_HistoryAppend ==
  [][\A p \in Procs :
       DrainStep(p) =>
         LET d == req[p].dev
             cmds == last'.resp.commands
             old == History(d)
             new == devices_commands_history'[d]
         IN  /\ Len(new) = Len(old) + Len(cmds)
             /\ SubSeq(new, 1, Len(old)) = old
             /\ \A i \in 1..Len(cmds) :
                  LET e == new[Len(old) + i]
                  IN  /\ DOMAIN e = DOMAIN cmds[i] \cup {"status", "sent_at"}
                      /\ \A k \in DOMAIN cmds[i] : e[k] = cmds[i][k]
                      /\ e.status = "sent"
                      /\ e.sent_at >= req[p].began
                      /\ e.sent_at >= req[p].touched
                      /\ req[p].touched >= req[p].began]_vars

\* C3 witness: a poll returned two commands and the history held an older
\* entry, the clock having advanced between the poll's arrival and its drain
C3_Witness ==
  /\ last.req.kind = "changes" /\ last.resp.code = 200
  /\ Len(last.resp.commands) = 2
  /\ Len(History(last.req.dev)) = 3
  /\ History(last.req.dev)[1].uid = 0
  /\ History(last.req.dev)[3].sent_at > last.req.began

\* C4: every accepted command not taken out by a delete sits exactly once in
\* exactly one of its device's pending and history lists, and in no other
\* device's lists; a command passes from pending to history only in a poll's
\* drain step, and that step moves the whole pending list and leaves it empty.
C4_Placed ==
  \A u \in DOMAIN log.accepted \ log.removed :
    /\ Count(Pending(log.accepted[u]), u) + Count(History(log.accepted[u]), u) = 1
    /\ \A d \in Devices \ {log.accepted[u]} :
         Count(Pending(d), u) + Count(History(d), u) = 0

C4_ExactlyOnePlace ==
  [][/\ C4_Placed'
     /\ \A d \in Devices :
          (\E u \in Uids(Pending(d)) :
             \E e \in Devices : u \in Uids(Get(devices_commands_history', e, <<>>)))
          => /\ \E p \in Procs : DrainStep(p) /\ req[p].dev = d
             /\ devices_commands_pending'[d] = <<>>
             /\ Uids(Pending(d)) \subseteq Uids(devices_commands_history'[d])]_vars

\* C4 witness: one command of a device was moved to its history by a poll and
\* another one, appended later, is pending
C4_Witness ==
  \E d \in Devices :
    /\ Len(Pending(d)) = 1 /\ Len(History(d)) = 2
    /\ History(d)[2].uid > Pending(d)[1].uid
    /\ Uids(Pending(d)) \cup Uids(History(d)) \subseteq DOMAIN log.accepted

\* C6: delete-pending(D, i) with i in range removes exactly the element at
\* index i and keeps the others in order; out of range (or no list) it changes
\* no map; other devices' lists, and every history, snapshot and meta, stay.
C6_DeletePending ==
  [][OneStepOf("delete_pending") =>
       LET d == last'.req.dev
           i == last'.req.idx
           L == Pending(d)
       IN  /\ i < Len(L) =>
                /\ d \in DOMAIN devices_commands_pending'
                /\ devices_commands_pending'[d] =
                     SubSeq(L, 1, i) \o SubSeq(L, i + 2, Len(L))
                /\ Pop(devices_commands_pending', d) = Pop(devices_commands_pending, d)
           /\ i >= Len(L) => devices_commands_pending' = devices_commands_pending
           /\ devices_commands_history' = devices_commands_history
           /\ devices_meds' = devices_meds
           /\ devices_meta' = devices_meta]_vars

\* C6 witness: index 0 of a two-element pending list was deleted
C6_Witness ==
  /\ last.req.kind = "delete_pending" /\ last.req.idx = 0
  /\ Len(Pending(last.req.dev)) = 1
  /\ \E u \in log.removed :
       /\ u \in DOMAIN log.accepted
       /\ log.accepted[u] = last.req.dev
       /\ u > Pending(last.req.dev)[1].uid

\* the maps in which device d has an entry
Where(d) ==
  {"meta" : x \in {d} \cap DOMAIN devices_meta}
  \cup {"meds" : x \in {d} \cap DOMAIN devices_meds}
  \cup {"pending" : x \in {d} \cap DOMAIN devices_commands_pending}
  \cup {"history" : x \in {d} \cap DOMAIN devices_commands_history}

\* C5 (as stated): once device D was deleted, and as long as no upload for D
\* was issued after the delete, D has no entry in any of the four maps and a
\* snapshot GET for D answers 404.  (Read in the claim's favour: an upload
\* that was issued before the delete and is still running is excluded too.)
C5_Original ==
  \A d \in Devices :
    (/\ log.del[d] = "clean"
     /\ \A p \in Procs : req[p].kind = "upload" => req[p].dev # d)
    => /\ Where(d) = {}
       /\ snapshot_response(devices_meds, d).code = 404

\* C5 (amended): delete-device removes D from the four maps in one step, so no
\* step takes D out of one map and leaves it in another, and D is in none of
\* them when the delete is answered; from then on D has no snapshot, and a
\* snapshot GET for D answers 404, until an upload for D stores one (an upload
\* issued later or one that was in progress during the delete).
C5_Amended ==
  [][\A d \in Devices :
       /\ Where(d) \ Where(d)' # {} => Where(d)' = {}
       /\ (OneStepOf("delete_device") /\ last'.req.dev = d) => Where(d)' = {}
       /\ (log'.del[d] # "never" /\ ~log'.stored[d]) => d \notin DOMAIN devices_meds'
       /\ (OneStepOf("snapshot") /\ last'.req.dev = d
             /\ log.del[d] # "never" /\ ~log.stored[d])
          => last'.resp.code = 404]_vars

\* C5 witness: a snapshot GET answered 404 for a device whose meta record and
\* snapshot a delete-device had removed before
C5_Witness ==
  /\ last.req.kind = "snapshot" /\ last.resp.code = 404
  /\ log.del[last.req.dev] = "clean"
  /\ {"meta", "meds"} \subseteq log.wiped[last.req.dev]
  /\ Where(last.req.dev) = {}

\* C7: a snapshot GET for D, with the snapshot in place stored by an accepted
\* upload and neither another store nor a device delete for D since, answers
\* with exactly that upload's count and meds and the storedAt its response gave.
C7_UploadThenGet ==
  [][(OneStepOf("snapshot") /\ log.writer[last'.req.dev] # NoWriter) =>
       LET w == log.writer[last'.req.dev]
       IN  last'.resp = [code |-> 200,
                         body |-> [timestamp |-> w.storedAt, count |-> w.count,
                                   meds |-> w.meds]]]_vars

\* C7 witness: the GET returned the second upload's snapshot, which had
\* replaced an earlier one and was built before the clock advanced
C7_Witness ==
  /\ last.req.kind = "snapshot" /\ last.resp.code = 200
  /\ log.writer[last.req.dev] # NoWriter
  /\ log.writer[last.req.dev].over
  /\ last.resp.body.timestamp = log.writer[last.req.dev].storedAt
  /\ last.resp.body.timestamp < devices_meta[last.req.dev].last_seen_upload

\* the body lacks deviceId, meds or count, or its deviceId is empty
Lacking(data) ==
  \/ "deviceId" \notin DOMAIN data
  \/ "meds" \notin DOMAIN data
  \/ "count" \notin DOMAIN data
  \/ (IF "deviceId" \in DOMAIN data THEN data.deviceId = "" ELSE FALSE)

\* C8: an upload whose body lacks deviceId, meds or count (or has an empty
\* deviceId) is never taken up, and its 400 answer leaves the four maps as
\* they were; an upload with count 0 and no meds for a named device is taken up.
C8_UploadValidation ==
  [][/\ \A p \in Procs :
          (pc[p] = "idle" /\ pc'[p] # "idle" /\ req'[p].kind = "upload")
          => ~Lacking(req'[p].data)
     /\ OneStepOf("upload") =>
          /\ last'.resp.code = 400
          /\ Lacking(last'.req.data)
          /\ maps' = maps]_vars

\* C8 witness: an upload lacking a field was answered 400 while the snapshot
\* of an earlier upload with count 0 and no meds is in the store
C8_Witness ==
  /\ last.req.kind = "upload" /\ last.resp.code = 400
  /\ "deviceId" \in DOMAIN last.req.data
  /\ \E d \in DOMAIN devices_meds :
       devices_meds[d].count = 0 /\ devices_meds[d].meds = <<>>

\* C9 (as stated): no upload or poll fails; each is answered normally, with
\* the device's meta record in place and stamped.
C9_NoErrorOutcome ==
  last.req.kind \in {"upload", "changes"} =>
    /\ last.resp.code \in {200, 400}
    /\ last.resp.code = 200 => last.req.dev \in DOMAIN devices_meta

\* the kinds of request whose handler starts with ensure_device_meta
EnsuringKinds == {"upload", "changes", "detail", "new_device"} \cup CommandKinds

\* C10 (as stated): after a request naming D is answered (not rejected), D has
\* a meta record -- for every endpoint that names a device.
C10_Original ==
  (/\ last.req.kind \in EnsuringKinds
                        \cup {"snapshot", "pending", "delete_pending", "delete_history"}
   /\ last.resp.code \in {200, 302, 404})
  => last.req.dev \in DOMAIN devices_meta

\* C10 (amended): upload, poll, command add/edit/delete, the device page and the
\* new-device form call ensure_device_meta before anything else; that call, for
\* an unknown D, creates the record with createdAt the time of the call,
\* friendly name D and both last-seen fields null, and for a known D changes
\* nothing.  Snapshot GET, pending GET, delete-pending and delete-history
\* create no meta record.
C10_Amended ==
  [][/\ \A p \in Procs :
          /\ (pc[p] = "idle" /\ pc'[p] # "idle") =>
               /\ pc'[p] = IF req'[p].kind = "pending" THEN "jsonify" ELSE "ensure"
               /\ req'[p].kind \in EnsuringKinds \cup {"pending"}
               /\ devices_meta' = devices_meta
          /\ (pc[p] = "jsonify" /\ pc'[p] = "idle") => devices_meta' = devices_meta
          /\ (pc[p] = "ensure" /\ pc'[p] # "ensure") =>
               LET d == req[p].dev
               IN  IF d \in DOMAIN devices_meta
                   THEN devices_meta' = devices_meta
                   ELSE /\ DOMAIN devices_meta' = DOMAIN devices_meta \cup {d}
                        /\ devices_meta'[d] =
                             [deviceId |-> d, friendly_name |-> d, created_at |-> now',
                              last_seen_upload |-> None, last_seen_changes |-> None]
                        /\ \A e \in DOMAIN devices_meta :
                             devices_meta'[e] = devices_meta[e]
     /\ \A k \in {"snapshot", "pending", "delete_pending", "delete_history"} :
          OneStepOf(k) => devices_meta' = devices_meta]_vars

\* C10 witness: the device page of an unknown device has just created its
\* meta record, after the clock advanced
C10_Witness ==
  \E p \in Procs :
    /\ pc[p] = "read" /\ req[p].kind = "detail"
    /\ req[p].dev \in DOMAIN devices_meta
    /\ devices_meta[req[p].dev].created_at = now /\ now > 0
    /\ devices_meta[req[p].dev].last_seen_upload = None
    /\ devices_meta[req[p].dev].last_seen_changes = None

\* the step in which thread p appends its command and answers
AppendStep(p) == pc[p] = "append" /\ pc'[p] = "idle"
\* the command body lacks a field its endpoint requires
CommandLacking(kind, data) ==
  IF kind = "add_command" THEN add_required \ DOMAIN data # {}
  ELSE "id" \notin DOMAIN data

\* C11: a command request lacking a required field (add: name, qty, hour,
\* minute, led; edit and delete: id) is answered 400 and leaves the four maps
\* as they were, and no such request is ever taken up; a request that is taken
\* up changes no map before its append step, which puts exactly its command at
\* the end of the device's pending list and echoes it, with enabled = true for
\* an add that carried no enabled field.
C11_CommandValidation ==
  [][/\ \A k \in CommandKinds :
          OneStepOf(k) =>
            /\ maps' = maps
            /\ last'.resp.code \in {400, 500}
            /\ CommandLacking(k, last'.req.data) <=> last'.resp.code = 400
     /\ \A p \in Procs :
          /\ (pc[p] = "idle" /\ pc'[p] # "idle" /\ req'[p].kind \in CommandKinds)
             => /\ ~CommandLacking(req'[p].kind, req'[p].data)
                /\ maps' = maps
          /\ AppendStep(p) =>
               LET d == req[p].dev
                   cmd == last'.resp.command
               IN  /\ last'.resp.code = 200 /\ last'.resp.deviceId = d
                   /\ devices_commands_pending' =
                        Put(devices_commands_pending, d, Append(Pending(d), cmd))
                   /\ cmd = req[p].cmd
                   /\ (req[p].kind = "add_command" /\ "enabled" \notin DOMAIN req[p].data)
                      => cmd.enabled = TRUE
                   /\ (req[p].kind = "add_command" /\ "enabled" \in DOMAIN req[p].data)
                      => cmd.enabled = req[p].data.enabled
                   /\ UNCHANGED <<devices_meta, devices_meds,
                                  devices_commands_history>>]_vars

\* C11 witness: an add without an enabled field was appended behind an older
\* command and echoed with enabled = true
C11_Witness ==
  /\ last.req.kind = "add_command" /\ last.resp.code = 200
  /\ "enabled" \notin DOMAIN last.req.data
  /\ last.resp.command.enabled = TRUE
  /\ Len(Pending(last.req.dev)) = 2
  /\ Pending(last.req.dev)[2] = last.resp.command

\* the in-memory map that file `name` mirrors
MapOf(name) ==
  CASE name = "meta" -> devices_meta
    [] name = "meds" -> devices_meds
    [] name = "pending" -> devices_commands_pending
    [] name = "history" -> devices_commands_history
\* the same map after the step
MapOfNext(name) ==
  CASE name = "meta" -> devices_meta'
    [] name = "meds" -> devices_meds'
    [] name = "pending" -> devices_commands_pending'
    [] name = "history" -> devices_commands_history'
\* a step in which a save failed
SaveFailed == faults' < faults
\* the files the critical section of a failing step saved
SavedNames == {failed'[i][1] : i \in DOMAIN failed'}

\* C12 (as stated): a file whose save failed keeps its previous content.
C12_Original ==
  [][SaveFailed =>
       \A i \in DOMAIN failed' :
         failed'[i][2] # "ok" => files'[failed'[i][1]] = files[failed'[i][1]]]_vars

\* C12 (amended): a failing save is swallowed.  The step still answers with its
\* success status, the maps are changed as without the failure (a drain empties
\* the pending list and extends the history, an append appends, a device delete
\* removes the device), every other save of the same critical section is still
\* made and writes the map as it now is, and the failed file either is as
\* before or no longer parses; files the section does not save are untouched.
\* No step answers 500 except for a missing meta record or a bad number.
C12_Amended ==
  [][/\ SaveFailed =>
          /\ \A i \in DOMAIN failed' :
               LET name == failed'[i][1]
               IN  IF failed'[i][2] = "ok"
                   THEN files'[name] = WrittenFile(MapOfNext(name))
                   ELSE files'[name] \in {files[name], MalformedFile}
          /\ \A name \in FileNames \ SavedNames : files'[name] = files[name]
          /\ last' # last => last'.resp.code \in {200, 302}
          /\ \A p \in Procs :
               /\ DrainStep(p) =>
                    /\ devices_commands_pending'[req[p].dev] = <<>>
                    /\ Len(devices_commands_history'[req[p].dev])
                         = Len(History(req[p].dev)) + Len(Pending(req[p].dev))
                    /\ last'.resp.commands = Pending(req[p].dev)
               /\ AppendStep(p) =>
                    devices_commands_pending'[req[p].dev]
                      = Append(Pending(req[p].dev), req[p].cmd)
               /\ (pc[p] = "store" /\ pc'[p] = "idle") =>
                    devices_meds'[req[p].dev] = req[p].snapshot
          /\ OneStepOf("delete_device") =>
               /\ \A name \in FileNames : last'.req.dev \notin DOMAIN MapOfNext(name)
               /\ SavedNames = FileNames
     /\ (last' # last /\ last'.resp.code = 500) =>
          \/ /\ last'.resp.error = "KeyError"
             /\ last'.req.dev \notin DOMAIN devices_meta
          \/ /\ last'.resp.error \in {"ValueError", "TypeError"}
             /\ last'.req.kind \in CommandKinds]_vars

\* C12 witness: a poll delivered a command and was answered 200 although its
\* write of the pending file was torn; the history file was still written, and
\* the pending file no longer matches the (emptied) pending map
C12_Witness ==
  /\ last.req.kind = "changes" /\ last.resp.code = 200
  /\ Len(last.resp.commands) = 1
  /\ failed = << <<"pending", "torn">>, <<"history", "ok">> >>
  /\ files["pending"] = MalformedFile
  /\ files["history"] = WrittenFile(devices_commands_history)
  /\ Pending(last.req.dev) = <<>>
  /\ last.req.dev \in DOMAIN devices_commands_pending

\* the step in which the device page is rendered, and the one in which the
\* pending list is serialised
RenderStep(p) == pc[p] = "render" /\ pc'[p] = "idle"
JsonifyStep(p) == pc[p] = "jsonify" /\ pc'[p] = "idle"

\* C13 (as stated): what a device page shows is the device's state at one
\* instant, so no page shows the same command in its pending list and in its
\* history list.  (This is the least the claim says: a page that shows a
\* command twice matches the device's state at no instant at all.)
C13_NoCommandTwice ==
  [][\A p \in Procs :
       RenderStep(p) =>
         Uids(last'.resp.pending) \cap Uids(last'.resp.history) = {}]_vars

\* C14 (as stated): from one store to the next, the timestamp of a device's
\* stored snapshot never decreases (each overwrite carries the time at which
\* it is stored, so the snapshot in the store is the latest one).
C14_TimestampNeverDecreases ==
  [][\A d \in DOMAIN devices_meds \cap DOMAIN devices_meds' :
       devices_meds'[d].timestamp >= devices_meds[d].timestamp]_vars

\* C15: no request deadlocks: no thread asks for the lock while it holds it,
\* at most one thread is inside a `with lock:` block, and every request that
\* has started is eventually over (answered normally or with 500), whatever
\* the other threads do.
C15_NoDeadlock ==
  /\ [](\A p \in LockProcs :
          pc[p] = "locked" => /\ req[p].ops # <<>>
                              /\ Head(req[p].ops) # "acquire"
                              /\ \A q \in LockProcs \ {p} : pc[q] # "locked")
  /\ \A p \in LockProcs : (pc[p] # "idle") ~> (pc[p] = "idle")

\* C15 witness: a request ended with an exception raised inside a block while
\* one thread is inside a block and another waits for the lock
C15_Witness ==
  /\ last.resp.code = 500
  /\ \E p, q \in LockProcs :
       /\ pc[p] = "locked"
       /\ pc[q] = "run" /\ req[q].ops # <<>> /\ Head(req[q].ops) = "acquire"

\* what load_state() would read from file `name` is the map as it is
InSync(name) == load_json_file(files[name], <<>>) = MapOf(name)
\* the save of file `name` failed in this step
FailedHere(name) ==
  /\ SaveFailed
  /\ \E i \in DOMAIN failed' : failed'[i][1] = name /\ failed'[i][2] # "ok"

\* C16: as long as no save has failed, every file reads back as its map (a
\* file that was missing or unparsable at startup reads back as the empty map
\* until its map is first changed).  A critical section that changes a map
\* writes the whole map, as it is after the change, to its file, unless that
\* save fails; a file is never written with anything but its map as it now
\* is, so the first successful save after a failure makes the two equal
\* again; and a file that is equal to its map stays so over every step in
\* which its save does not fail.
C16_FilesMirrorMaps ==
  /\ [](failed = <<>> => \A name \in FileNames : InSync(name))
  /\ [][\A name \in FileNames :
           ~FailedHere(name) =>
             /\ MapOfNext(name) # MapOf(name) =>
                  files'[name] = WrittenFile(MapOfNext(name))
             /\ files'[name] # files[name] =>
                  files'[name] = WrittenFile(MapOfNext(name))
             /\ InSync(name) =>
                  load_json_file(files'[name], <<>>) = MapOfNext(name)]_vars

\* C16 witness: a poll of a new device created its empty pending and history
\* entries; its write of the pending file was torn, its write of the history
\* file succeeded and holds the empty entry; the next command appended to the
\* pending list rewrote the pending file, which equals the pending map again
C16_Witness ==
  /\ failed = << <<"pending", "torn">>, <<"history", "ok">> >>
  /\ faults = 0
  /\ files["pending"] = WrittenFile(devices_commands_pending)
  /\ files["history"] = WrittenFile(devices_commands_history)
  /\ \E d \in DOMAIN devices_commands_pending :
       /\ Len(devices_commands_pending[d]) = 1
       /\ d \in DOMAIN devices_commands_history
       /\ devices_commands_history[d] = <<>>

\* thread p leaves label l in this step
Leaves(p, l) == pc[p] = l /\ pc'[p] # l

\* C17: a meta record leaves the map only in a delete-device step for its
\* device.  ensure_device_meta applied twice gives what one application
\* gives, and a call for a device that has a record changes nothing; the
\* last-seen stamp of an upload changes only last_seen_upload of D's record,
\* that of a poll only last_seen_changes; the remaining steps of upload, poll
\* and enqueue and the views leave the meta map alone.  So created_at and
\* deviceId of a record never change while it exists, and friendly_name
\* changes only in the rename step of the new-device form.
C17_MetaRecordKept ==
  /\ [](\A d \in Devices : \A t1, t2 \in 0..MaxTime :
          ensure_device_meta(ensure_device_meta(devices_meta, d, t1), d, t2)
            = ensure_device_meta(devices_meta, d, t1))
  /\ [][/\ \A d \in DOMAIN devices_meta :
             /\ d \notin DOMAIN devices_meta' =>
                  (OneStepOf("delete_device") /\ last'.req.dev = d)
             /\ d \in DOMAIN devices_meta' =>
                  /\ devices_meta'[d].created_at = devices_meta[d].created_at
                  /\ devices_meta'[d].deviceId = devices_meta[d].deviceId
                  /\ devices_meta'[d].friendly_name # devices_meta[d].friendly_name
                       => \E p \in Procs : Leaves(p, "rename") /\ req[p].dev = d
        /\ \A p \in Procs :
             /\ ((Leaves(p, "ensure") \/ Leaves(p, "touch_ensure"))
                   /\ req[p].dev \in DOMAIN devices_meta)
                => devices_meta' = devices_meta
             /\ (Leaves(p, "touch_set") /\ pc'[p] = "store") =>
                  devices_meta' =
                    [devices_meta EXCEPT ![req[p].dev].last_seen_upload =
                                            devices_meta'[req[p].dev].last_seen_upload]
             /\ (Leaves(p, "touch_set") /\ pc'[p] = "drain") =>
                  devices_meta' =
                    [devices_meta EXCEPT ![req[p].dev].last_seen_changes =
                                            devices_meta'[req[p].dev].last_seen_changes]
             /\ (\E l \in {"store", "drain", "append", "read", "render", "jsonify"} :
                   Leaves(p, l))
                => devices_meta' = devices_meta
        /\ (OneStepOf("snapshot") \/ (\E p \in Procs : pc'[p] = "jsonify" /\ pc[p] = "idle"))
             => devices_meta' = devices_meta]_vars

\* C17 witness: an upload has just stamped the record of a device that the
\* new-device form had created and named earlier; the record still has its
\* name and its earlier created_at
C17_Witness ==
  \E p \in Procs :
    /\ pc[p] = "store" /\ req[p].kind = "upload"
    /\ req[p].dev \in DOMAIN devices_meta
    /\ devices_meta[req[p].dev].friendly_name = "Kitchen box"
    /\ devices_meta[req[p].dev].last_seen_upload = now
    /\ devices_meta[req[p].dev].created_at < now
    /\ devices_meta[req[p].dev].last_seen_changes = None

\* C18: delete-history(D, i) with i in range removes exactly the element at
\* index i of D's history and keeps the others in order; out of range (or no
\* list) it changes no map.  In both cases every pending list, every other
\* device's history, the snapshots and the meta records stay, and no command
\* is delivered by the step.
C18_DeleteHistory ==
  [][OneStepOf("delete_history") =>
       LET d == last'.req.dev
           i == last'.req.idx
           H == History(d)
       IN  /\ i < Len(H) =>
                /\ d \in DOMAIN devices_commands_history'
                /\ Len(devices_commands_history'[d]) = Len(H) - 1
                /\ \A k \in 1..(Len(H) - 1) :
                     devices_commands_history'[d][k] = H[IF k <= i THEN k ELSE k + 1]
                /\ Pop(devices_commands_history', d) = Pop(devices_commands_history, d)
           /\ i >= Len(H) => devices_commands_history' = devices_commands_history
           /\ devices_commands_pending' = devices_commands_pending
           /\ devices_meds' = devices_meds
           /\ devices_meta' = devices_meta
           /\ log'.delivered = log.delivered
           /\ last'.resp.code = 302]_vars

\* C18 witness: index 1 of a two-element history was deleted; the record left
\* is the older one, and the deleted one is of a command a poll had delivered
C18_Witness ==
  /\ last.req.kind = "delete_history" /\ last.req.idx = 1
  /\ Len(History(last.req.dev)) = 1
  /\ History(last.req.dev)[1].uid = 0
  /\ \E u \in log.removed : u \in DOMAIN log.delivered /\ u > 0

\* C19 (as stated): every device with an entry in the snapshot map, the
\* pending map or the history map has a meta record.
C19_NoOrphanedRecord ==
  \A d \in Devices : Where(d) # {} => "meta" \in Where(d)

\* no entry of a device other than d is added, removed or changed in any map
OthersKept(d) ==
  /\ Pop(devices_meta', d) = Pop(devices_meta, d)
  /\ Pop(devices_meds', d) = Pop(devices_meds, d)
  /\ Pop(devices_commands_pending', d) = Pop(devices_commands_pending, d)
  /\ Pop(devices_commands_history', d) = Pop(devices_commands_history, d)
\* the maps a request of the given kind may change (for its own device)
Owned(kind) ==
  CASE kind = "upload" -> {"meta", "meds"}
    [] kind \in CommandKinds -> {"meta", "pending"}
    [] kind = "changes" -> {"meta", "pending", "history"}
    [] kind \in {"detail", "new_device"} -> {"meta"}
    [] kind = "delete_pending" -> {"pending"}
    [] kind = "delete_history" -> {"history"}
    [] kind = "delete_device" -> FileNames
    [] OTHER -> {}
\* the step changes no map outside those a request of this kind owns
OwnedOnly(kind) ==
  \A name \in FileNames \ Owned(kind) : MapOfNext(name) = MapOf(name)

\* C20: every step of a request naming D leaves the entries of all other
\* devices in the four maps as they were.  The steps of an upload change at
\* most D's meta record and D's snapshot, those of a command request D's meta
\* record and D's pending list, those of a poll D's meta record, pending list
\* and history; snapshot GET and pending GET change no map; a request that is
\* rejected (400) or fails (500) changes no map in the step that answers it.
C20_FrameEffects ==
  [][/\ \A p \in Procs :
          /\ (pc[p] # "idle" /\ pc'[p] # pc[p]) =>
               /\ OthersKept(req[p].dev)
               /\ OwnedOnly(req[p].kind)
          /\ (pc[p] = "idle" /\ pc'[p] # "idle") =>
               \A name \in FileNames : MapOfNext(name) = MapOf(name)
     /\ (left' # left /\ pc' = pc) =>
          IF last'.resp.code \in {400, 500}
          THEN \A name \in FileNames : MapOfNext(name) = MapOf(name)
          ELSE /\ OthersKept(last'.req.dev)
               /\ OwnedOnly(last'.req.kind)
     /\ (last' # last /\ last'.resp.code \in {400, 500}) =>
          \A name \in FileNames : MapOfNext(name) = MapOf(name)]_vars

\* C20 witness: a poll for one device was answered and created that device's
\* empty pending and history entries, while the command queued for the other
\* device is still in that device's pending list
C20_Witness ==
  /\ last.req.kind = "changes" /\ last.resp.code = 200
  /\ last.req.dev \in DOMAIN devices_commands_history
  /\ last.req.dev \in DOMAIN devices_commands_pending
  /\ last.req.dev \notin DOMAIN devices_meds
  /\ \E e \in Devices \ {last.req.dev} :
       /\ e \in DOMAIN devices_commands_pending
       /\ Len(devices_commands_pending[e]) = 1
       /\ e \notin DOMAIN devices_commands_history

\* C21 (as stated): a device with both a stored snapshot and a meta record
\* has a last_seen_upload that is not null and not earlier than the
\* snapshot's timestamp.
C21_LastSeenCoversSnapshot ==
  \A d \in DOMAIN devices_meds \cap DOMAIN devices_meta :
    /\ devices_meta[d].last_seen_upload # None
    /\ devices_meta[d].last_seen_upload >= devices_meds[d].timestamp

\* the entry is marked as sent: it has status "sent" and a sent_at reading
Sent(e) ==
  /\ "status" \in DOMAIN e /\ e.status = "sent"
  /\ "sent_at" \in DOMAIN e /\ e.sent_at \in 0..MaxTime

\* C22: every history entry has status "sent" and a sent_at time, no pending
\* entry has a status or a sent_at field, and along each history list sent_at
\* never decreases.  A poll puts its entries, all with the clock reading it
\* took inside its critical section, after the entries already there, none of
\* which has a later sent_at; a delete-history leaves the remaining entries
\* as they were and in their order.
C22_HistorySentInOrder ==
  /\ [](/\ \A d \in DOMAIN devices_commands_history :
             LET H == devices_commands_history[d]
             IN  /\ \A i \in 1..Len(H) : Sent(H[i])
                 /\ \A i, j \in 1..Len(H) : i < j => H[i].sent_at <= H[j].sent_at
        /\ \A d \in DOMAIN devices_commands_pending :
             \A i \in 1..Len(devices_commands_pending[d]) :
               {"status", "sent_at"} \cap DOMAIN devices_commands_pending[d][i] = {})
  /\ [][/\ \A p \in Procs :
             DrainStep(p) =>
               LET old == History(req[p].dev)
                   new == devices_commands_history'[req[p].dev]
               IN  /\ SubSeq(new, 1, Len(old)) = old
                   /\ \A i \in 1..Len(new) :
                        /\ i > Len(old) => new[i].sent_at = now'
                        /\ i <= Len(old) => new[i].sent_at <= now'
        /\ OneStepOf("delete_history") =>
             \A d \in DOMAIN devices_commands_history :
               /\ d \in DOMAIN devices_commands_history'
               /\ \A e \in {devices_commands_history'[d][i] :
                              i \in 1..Len(devices_commands_history'[d])} :
                    \E i \in 1..Len(History(d)) : History(d)[i] = e]_vars

\* C22 witness: two polls of one device ran at the same time.  The one
\* answered last had stamped its last-poll time before the other one drained
\* the queued edit command, and itself found nothing to send; the history
\* holds the loaded entry and, after it, the later one, and the command in it
\* has none of the unknown keys of its request body
C22_Witness ==
  /\ last.req.kind = "changes" /\ last.resp.code = 200
  /\ last.resp.commands = <<>>
  /\ Len(History(last.req.dev)) = 2
  /\ History(last.req.dev)[1].sent_at = 0
  /\ History(last.req.dev)[2].sent_at > last.req.touched
  /\ last.req.touched # None
  /\ History(last.req.dev)[2].op = "edit"
  /\ DOMAIN History(last.req.dev)[2] = {"op", "id", "uid", "qty", "status", "sent_at"}

====
